---- MODULE Spec2Model ----
(***************************************************************************)
(* goptest: a bounded-concurrency dispatcher that issues one generation    *)
(* request per specification item (main), the retrying unary client call   *)
(* (Client.CreateChatCompletion) and the line-oriented fragment aggregator *)
(* (AggregateFiles) of src/main.go.                                        *)
(*                                                                         *)
(* Text.  A Go string is modelled as the sequence of its tokens; a token   *)
(* is a fixed piece of text ("package", "import", " ", "(", ...) and no    *)
(* token is a prefix of another, so strings.HasPrefix, strings.TrimSpace   *)
(* and strings.TrimPrefix are computed on token sequences as Go computes   *)
(* them on bytes.  A text holding newlines is modelled as the sequence of  *)
(* lines strings.Split(text, "\n") yields (never empty: Split("") is one   *)
(* empty line); a text built by appending line + "\n" pieces is the        *)
(* sequence of those lines.                                                *)
(***************************************************************************)
EXTENDS Integers, Sequences, FiniteSets, TLC

VARIABLES
    \* ---- the aggregator called on its own (SpecAgg) ----
    fs,          \* AggregateFiles' argument fs: a sequence of fragments
    aggPc,       \* "ready" | "returned" | "panicked"
    aggArgs,     \* the pkgName and comment arguments of the call made
    aggSt,       \* imports, importSet, functions when the loops ended
    aggOut,      \* the string AggregateFiles returned
    \* ---- the code-generation run of main (Spec) ----
    nSpecs,      \* len(specs.Specs)
    pkgName,     \* the package identifier ConcatFiles returned
    mainPc,      \* "loop" | "wait" | "aggregate" | "write" | "done"
    next,        \* the loop index i of the dispatch loop
    max,         \* number of tokens held in the channel max
    wg,          \* the WaitGroup's counter
    task,        \* task[i]: where the goroutine of item i stands
    calls,       \* calls[i]: the attempts the backend answered, in order
    sleeps,      \* sleeps[i]: the seconds slept by time.Sleep, in order
    ret,         \* ret[i]: what GenerateTestCode returned to the goroutine
    responses,   \* the result slice
    slotWrites,  \* slotWrites[i]: the tasks that assigned responses[i], in order
    outOfOrder,  \* some task stored its result before a task of a lower index
    firstFail,   \* the first item whose generation returned an error, or NoOne
    handed,      \* the fragments handed to AggregateFiles
    combinedCode,\* the string AggregateFiles returned to main
    file,        \* the output file: number of opens for writing, and content
    proc,        \* "running" | "exit0" | "exit1" | "panic"
    exitBy,      \* who ended the process: an item, "main" or "none"
    \* ---- the start of main, the source bundle and the streamed calls ----
    launch,      \* the command line: which flags are given
    apiKey,      \* OPENAI_API_KEY is set to a non-empty value
    client,      \* "none" | "ok" | "failed": what NewClient returned
    src,         \* the code files: for each, is it readable, and its lines
    concatPc,    \* ConcatFiles: "off" | "ready" | "returned" | "failed" | "panicked"
    concatenatedCode, \* the files string ConcatFiles returned
    stream       \* stream[op]: the streamed call of the client operation op

aggVars == <<fs, aggPc, aggArgs, aggSt, aggOut>>

runVars == <<nSpecs, pkgName, mainPc, next, max, wg, task, calls, sleeps, ret,
             responses, slotWrites, outOfOrder, firstFail, handed, combinedCode,
             file, proc, exitBy>>

startVars == <<launch, apiKey, client, src, concatPc, concatenatedCode, stream>>

vars == <<aggVars, runVars, startVars>>

(***************************************************************************)
(* Bounds of the model.                                                    *)
(***************************************************************************)
MaxFrags == 2
MaxTotalLines == 4
MaxSpecs == 3
MaxDeltas == 2
MaxFiles == 2
MaxSrcLines == 3

(***************************************************************************)
(* strings helpers                                                         *)
(***************************************************************************)
HasPrefix(s, p) == Len(s) >= Len(p) /\ SubSeq(s, 1, Len(p)) = p

TrimPrefix(s, p) == IF HasPrefix(s, p) THEN SubSeq(s, Len(p) + 1, Len(s)) ELSE s

IsSpace(c) == c \in {" ", "\t"}

RECURSIVE TrimLeft(_)
TrimLeft(s) == IF s # <<>> /\ IsSpace(Head(s)) THEN TrimLeft(Tail(s)) ELSE s

RECURSIVE TrimRight(_)
TrimRight(s) ==
    IF s # <<>> /\ IsSpace(s[Len(s)]) THEN TrimRight(SubSeq(s, 1, Len(s) - 1)) ELSE s

TrimSpace(s) == TrimRight(TrimLeft(s))

(***************************************************************************)
(* The line recognizers.  Fence is the token of three backquotes.          *)
(***************************************************************************)
Fence == "<3 backquotes>"

isPackageDeclaration(line) == HasPrefix(line, <<"package", " ">>)

isGPTAddedCodeBlockDelimeter(line) == HasPrefix(line, <<Fence>>)

startsImportBlock(line) == HasPrefix(line, <<"import", " ", "(">>)

isSingleImportStatement(line) == HasPrefix(line, <<"import", " ", "\"">>)

(***************************************************************************)
(* The aggregator's accumulators: imports and functions are the two        *)
(* strings.Builder, each a sequence of "\n"-terminated lines; importSet is *)
(* the map's key set.                                                      *)
(***************************************************************************)
EmptySt == [imports |-> <<>>, importSet |-> {}, functions |-> <<>>, panic |-> FALSE]

\* An addImport that does not look the line up in the set.
addImport_NoDedup(st, importLine) ==
    [st EXCEPT !.imports = Append(@, <<"\t">> \o importLine),
               !.importSet = @ \cup {importLine}]

\* An addImport whose set remembers the last line added only.
addImport_ForgetsOthers(st, importLine) ==
    IF importLine \notin st.importSet
    THEN [st EXCEPT !.imports = Append(@, <<"\t">> \o importLine),
                    !.importSet = {importLine}]
    ELSE st

addImport(st, importLine) ==
    IF importLine \notin st.importSet
    THEN [st EXCEPT !.imports = Append(@, <<"\t">> \o importLine),
                    !.importSet = @ \cup {importLine}]
    ELSE st

\* A handleImportBlock that returns at the end of the fragment instead of
\* panicking.
RECURSIVE handleImportBlockFrom_Truncates(_, _, _, _)
handleImportBlockFrom_Truncates(lines, from, i, st) ==
    IF from + i > Len(lines)
    THEN [n |-> i, st |-> st]
    ELSE LET trimmedLine == TrimSpace(lines[from + i])
         IN  IF HasPrefix(trimmedLine, <<")">>)
             THEN [n |-> i + 1, st |-> st]
             ELSE handleImportBlockFrom_Truncates(lines, from, i + 1,
                                                  addImport(st, trimmedLine))

\* handleImportBlock(lines[from:], ...): n is the value returned (the closer's
\* index in the slice, plus one); panic is the panic after the loop.
\* A loop over the block that reports one line more than it consumed.
RECURSIVE handleImportBlockFrom_SkipsNext(_, _, _, _)
handleImportBlockFrom_SkipsNext(lines, from, i, st) ==
    IF from + i > Len(lines)
    THEN [n |-> 0, st |-> [st EXCEPT !.panic = TRUE]]
    ELSE LET trimmedLine == TrimSpace(lines[from + i])
         IN  IF HasPrefix(trimmedLine, <<")">>)
             THEN [n |-> i + 2, st |-> st]
             ELSE handleImportBlockFrom_SkipsNext(lines, from, i + 1,
                                                  addImport(st, trimmedLine))

RECURSIVE handleImportBlockFrom(_, _, _, _)
handleImportBlockFrom(lines, from, i, st) ==
    IF from + i > Len(lines)
    THEN [n |-> 0, st |-> [st EXCEPT !.panic = TRUE]]
    ELSE LET trimmedLine == TrimSpace(lines[from + i])
         IN  IF HasPrefix(trimmedLine, <<")">>)
             THEN [n |-> i + 1, st |-> st]
             ELSE handleImportBlockFrom(lines, from, i + 1, addImport(st, trimmedLine))

\* lines is 1-based here: the Go slice lines[k:] starts at lines[k + 1].
handleImportBlock(lines, k, st) == handleImportBlockFrom(lines, k + 1, 0, st)

\* The inner loop of AggregateFiles from Go index i on.
RECURSIVE AggregateLines(_, _, _, _)
AggregateLines(lines, i, comment, st) ==
    IF st.panic \/ i >= Len(lines)
    THEN st
    ELSE LET line == lines[i + 1]
             trimmedLine == TrimSpace(line)
         IN  CASE isPackageDeclaration(trimmedLine)
                    \/ isGPTAddedCodeBlockDelimeter(trimmedLine) ->
                    AggregateLines(lines, i + 1, comment, st)
               [] OTHER ->
                    IF startsImportBlock(trimmedLine)
                    THEN LET r == handleImportBlock(lines, i + 1, st)
                         IN  AggregateLines(lines, i + r.n + 1, comment, r.st)
                    ELSE IF isSingleImportStatement(trimmedLine)
                    THEN AggregateLines(lines, i + 1, comment,
                            addImport(st, TrimPrefix(trimmedLine, <<"import", " ">>)))
                    ELSE AggregateLines(lines, i + 1, comment,
                            [st EXCEPT !.functions =
                                Append(@, (IF comment THEN <<"//", " ">> ELSE <<>>) \o line)])

\* An outer loop that appends no separator after a fragment.
RECURSIVE AggregateFrom_NoSeparator(_, _, _, _)
AggregateFrom_NoSeparator(frags, k, comment, st) ==
    IF st.panic \/ k > Len(frags)
    THEN st
    ELSE AggregateFrom_NoSeparator(frags, k + 1, comment,
                                   AggregateLines(frags[k], 0, comment, st))

\* An outer loop whose separator line carries the comment marker too.
RECURSIVE AggregateFrom_MarkedSeparator(_, _, _, _)
AggregateFrom_MarkedSeparator(frags, k, comment, st) ==
    IF st.panic \/ k > Len(frags)
    THEN st
    ELSE LET s == AggregateLines(frags[k], 0, comment, st)
         IN  IF s.panic
             THEN s
             ELSE AggregateFrom_MarkedSeparator(frags, k + 1, comment,
                    [s EXCEPT !.functions =
                        Append(@, IF comment THEN <<"//", " ">> ELSE <<>>)])

\* The outer loop of AggregateFiles from fragment k on (1-based).
RECURSIVE AggregateFrom(_, _, _, _)
AggregateFrom(frags, k, comment, st) ==
    IF st.panic \/ k > Len(frags)
    THEN st
    ELSE LET s == AggregateLines(frags[k], 0, comment, st)
         IN  IF s.panic
             THEN s
             ELSE AggregateFrom(frags, k + 1, comment,
                                [s EXCEPT !.functions = Append(@, <<>>)])

AggregateSections(frags, comment) == AggregateFrom(frags, 1, comment, EmptySt)

\* A combineSections that wraps the imports also when there are none.
combineSections_AlwaysBlock(packageDecl, imports, functions) ==
    (IF packageDecl # <<>> THEN << <<"package", " ">> \o packageDecl >> ELSE <<>>)
    \o << <<>> >>
    \o << <<>>, <<"import", " ", "(">> >> \o imports \o << <<")">>, <<>> >>
    \o functions

combineSections(packageDecl, imports, functions) ==
    (IF packageDecl # <<>> THEN << <<"package", " ">> \o packageDecl >> ELSE <<>>)
    \o << <<>> >>
    \o (IF imports # <<>>
        THEN << <<>>, <<"import", " ", "(">> >> \o imports \o << <<")">>, <<>> >>
        ELSE <<>>)
    \o functions

\* panic: the call does not return; text: the string returned.
AggregateFiles(pkg, frags, comment) ==
    LET st == AggregateSections(frags, comment)
    IN  IF st.panic
        THEN [panic |-> TRUE, text |-> <<>>]
        ELSE [panic |-> FALSE, text |-> combineSections(pkg, st.imports, st.functions)]

(***************************************************************************)
(* Inputs of the aggregator: lines a generated fragment is made of.        *)
(***************************************************************************)
LPackage == <<"package", " ", "main">>
LFence == <<Fence, "go">>
LOpen == <<"import", " ", "(">>
LClose == <<")">>
LImportA == <<"import", " ", "\"", "a", "\"">>
LImportB == <<"import", " ", "\"", "b", "\"">>
LEntryA == <<"\t", "\"", "a", "\"">>
LEmpty == <<>>

LineVocab == {LPackage, LFence, LOpen, LClose, LImportA, LImportB, LEntryA, LEmpty}

PkgNames == {<<>>, <<"whatever">>}

\* The ways to cut at most t lines into at most f fragments of one line or
\* more: the sequences of the fragments' lengths.
RECURSIVE LenSeqs(_, _)
LenSeqs(f, t) ==
    IF f = 0 \/ t = 0
    THEN {<<>>}
    ELSE {<<>>} \cup UNION {{<<n>> \o rest : rest \in LenSeqs(f - 1, t - n)} : n \in 1..t}

RECURSIVE SumSeq(_)
SumSeq(lens) == IF lens = <<>> THEN 0 ELSE Head(lens) + SumSeq(Tail(lens))

\* The lines of flat cut into fragments of the lengths lens.
RECURSIVE Cut(_, _)
Cut(flat, lens) ==
    IF lens = <<>>
    THEN <<>>
    ELSE <<SubSeq(flat, 1, Head(lens))>>
         \o Cut(SubSeq(flat, Head(lens) + 1, Len(flat)), Tail(lens))

(***************************************************************************)
(* The code-generation run of main: the dispatch loop, one goroutine per   *)
(* item, the join, the aggregation and the write of the output file.       *)
(***************************************************************************)
K == 2

backoffSeconds == 10

\* Who ended the process: an item (0..nSpecs-1), nobody yet, or main itself.
NoOne == 0 - 1
MainId == 0 - 2

Items == 0..(nSpecs - 1)

\* What the backend can answer to one attempt: a completion whose content is
\* a fragment, an *openai.APIError carrying an HTTP status, or another error.
Statuses == {429, 499, 500, 503}

NoOutcome == [ok |-> FALSE, val |-> <<>>, api |-> FALSE, status |-> -1]
OkOutcome(v) == [ok |-> TRUE, val |-> v, api |-> FALSE, status |-> 0]
ApiError(s) == [ok |-> FALSE, val |-> <<>>, api |-> TRUE, status |-> s]
OtherError == [ok |-> FALSE, val |-> <<>>, api |-> FALSE, status |-> 0]

\* The fragments the backend can generate for item i: one well formed, one
\* whose import block is never closed.
TestLine(i) == <<"func", " ", "Test", ToString(i)>>
GoodFrag(i) == <<LPackage, LImportA, TestLine(i)>>
OpenFrag(i) == <<LOpen, LEntryA, TestLine(i)>>
GenFrags(i) == {GoodFrag(i), OpenFrag(i)}

Outcomes(i) ==
    {OkOutcome(f) : f \in GenFrags(i)} \cup {ApiError(s) : s \in Statuses} \cup {OtherError}

\* The request GenerateTestCode builds for item i.
Request(i) == [item |-> i]

\* A test that takes every error for a transient one.
shouldRetry_AnyError(err) == TRUE

\* CreateChatCompletion's test on the first attempt's error.
shouldRetry(err) == err.api /\ (err.status = 429 \/ err.status >= 500)

InFlight == {i \in Items : task[i] \in {"attempt1", "backoff", "attempt2"}}

(***************************************************************************)
(* The streamed calls (GenerateSpec, GenerateTestsList, GenerateTestCases),*)
(* the command line and the source bundle (ConcatFiles).                   *)
(***************************************************************************)
StreamOps == {"GenerateSpec", "GenerateTestsList", "GenerateTestCases"}

\* A streamed call: where it stands, what CreateChatCompletionStream answered
\* (one entry per request made), what stream.Recv() yielded in arrival order,
\* the local variable result, and the pair the operation returned.
IdleStream == [pc |-> "idle", opens |-> <<>>, events |-> <<>>, result |-> <<>>,
               ret |-> NoOutcome]

CalledStream == [IdleStream EXCEPT !.pc = "open"]

\* The errors the backend may answer, on a request or in a stream.
BackendErrors == {ApiError(s) : s \in Statuses} \cup {OtherError}

\* CreateChatCompletionStream returned a stream.
StreamOpened == OkOutcome(<<>>)

\* What stream.Recv() yields: a chunk with a delta, a chunk with no choice,
\* io.EOF, or another error.
Chunk(d) == [kind |-> "delta", text |-> d, err |-> NoOutcome]
NoChoice == [kind |-> "nochoice", text |-> <<>>, err |-> NoOutcome]
EOF == [kind |-> "eof", text |-> <<>>, err |-> NoOutcome]
RecvError(e) == [kind |-> "err", text |-> <<>>, err |-> e]

Deltas == {<<"cases:">>, <<"\n", Fence, "yaml">>}

Events == {Chunk(d) : d \in Deltas} \cup {NoChoice, EOF}
              \cup {RecvError(e) : e \in BackendErrors}

NumDeltas(events) == Cardinality({k \in 1..Len(events) : events[k].kind = "delta"})

StartParked ==
    /\ launch = [required |-> FALSE, cases |-> FALSE, what |-> FALSE, out |-> FALSE]
    /\ apiKey = FALSE
    /\ client = "none"
    /\ src = <<>>
    /\ concatPc = "off"
    /\ concatenatedCode = <<>>
    /\ stream = [op \in StreamOps |-> IdleStream]

\* The start of main is over and main is at the dispatch loop: the flags of
\* the code-generation mode are given and NewClient returned a client.
StartPassed ==
    /\ launch = [required |-> TRUE, cases |-> FALSE, what |-> FALSE, out |-> TRUE]
    /\ apiKey = TRUE
    /\ client = "ok"
    /\ src = <<>>
    /\ concatPc = "off"
    /\ concatenatedCode = <<>>
    /\ stream = [op \in StreamOps |-> IdleStream]

AggParked ==
    /\ fs = <<>>
    /\ aggPc = "off"
    /\ aggArgs = [pkgName |-> <<>>, comment |-> FALSE]
    /\ aggSt = EmptySt
    /\ aggOut = <<>>

Init ==
    /\ AggParked
    /\ StartPassed
    /\ nSpecs \in 0..MaxSpecs
    /\ pkgName \in PkgNames
    /\ mainPc = "loop"
    /\ next = 0
    /\ max = 0
    /\ wg = 0
    /\ task = [i \in Items |-> "idle"]
    /\ calls = [i \in Items |-> <<>>]
    /\ sleeps = [i \in Items |-> <<>>]
    /\ ret = [i \in Items |-> NoOutcome]
    /\ responses = [i \in Items |-> <<LEmpty>>]
    /\ slotWrites = [i \in Items |-> <<>>]
    /\ outOfOrder = FALSE
    /\ firstFail = NoOne
    /\ handed = <<>>
    /\ combinedCode = <<>>
    /\ file = [opens |-> 0, content |-> <<>>]
    /\ proc = "running"
    /\ exitBy = NoOne

\* Dispatch without the admission gate.
Dispatch_NoGate ==
    /\ proc = "running" /\ mainPc = "loop"
    /\ next < nSpecs
    /\ max' = max + 1
    /\ wg' = wg + 1
    /\ task' = [task EXCEPT ![next] = "attempt1"]
    /\ next' = next + 1
    /\ UNCHANGED <<aggVars, startVars, nSpecs, pkgName, mainPc, calls, sleeps, ret, responses,
                   slotWrites, outOfOrder, firstFail, handed, combinedCode, file,
                   proc, exitBy>>

\* One iteration of the dispatch loop: max <- struct{}{}, wg.Add(1), go func.
\* The goroutine starts GenerateTestCode, whose first attempt is then in flight.
Dispatch ==
    /\ proc = "running" /\ mainPc = "loop"
    /\ next < nSpecs
    /\ max < K
    /\ max' = max + 1
    /\ wg' = wg + 1
    /\ task' = [task EXCEPT ![next] = "attempt1"]
    /\ next' = next + 1
    /\ UNCHANGED <<aggVars, startVars, nSpecs, pkgName, mainPc, calls, sleeps, ret, responses,
                   slotWrites, outOfOrder, firstFail, handed, combinedCode, file,
                   proc, exitBy>>

\* The range loop is over: main goes on to wg.Wait().
LoopEnd ==
    /\ proc = "running" /\ mainPc = "loop"
    /\ next = nSpecs
    /\ mainPc' = "wait"
    /\ UNCHANGED <<aggVars, startVars, nSpecs, pkgName, next, max, wg, task, calls, sleeps, ret,
                   responses, slotWrites, outOfOrder, firstFail, handed, combinedCode,
                   file, proc, exitBy>>

\* CreateChatCompletion, first c.client.CreateChatCompletion(ctx, req) answers o.
FirstAttempt(i, o) ==
    /\ proc = "running" /\ task[i] = "attempt1"
    /\ calls' = [calls EXCEPT ![i] = Append(@, [req |-> Request(i), outcome |-> o])]
    /\ IF o.ok
       THEN /\ task' = [task EXCEPT ![i] = "returned"]
            /\ ret' = [ret EXCEPT ![i] = o]
            /\ UNCHANGED firstFail
       ELSE IF shouldRetry(o)
       THEN /\ task' = [task EXCEPT ![i] = "backoff"]
            /\ UNCHANGED <<ret, firstFail>>
       ELSE /\ task' = [task EXCEPT ![i] = "fatal"]
            /\ ret' = [ret EXCEPT ![i] = o]
            /\ firstFail' = IF firstFail = NoOne THEN i ELSE firstFail
    /\ UNCHANGED <<aggVars, startVars, nSpecs, pkgName, mainPc, next, max, wg, sleeps, responses,
                   slotWrites, outOfOrder, handed, combinedCode, file, proc, exitBy>>

\* time.Sleep(backoffSeconds * time.Second) is over.
Backoff(i) ==
    /\ proc = "running" /\ task[i] = "backoff"
    /\ sleeps' = [sleeps EXCEPT ![i] = Append(@, backoffSeconds)]
    /\ task' = [task EXCEPT ![i] = "attempt2"]
    /\ UNCHANGED <<aggVars, startVars, nSpecs, pkgName, mainPc, next, max, wg, calls, ret,
                   responses, slotWrites, outOfOrder, firstFail, handed, combinedCode,
                   file, proc, exitBy>>

\* A second attempt that backs off again on a transient error.
SecondAttempt_RetryAgain(i, o) ==
    /\ proc = "running" /\ task[i] = "attempt2"
    /\ calls' = [calls EXCEPT ![i] = Append(@, [req |-> Request(i), outcome |-> o])]
    /\ IF o.ok
       THEN /\ task' = [task EXCEPT ![i] = "returned"]
            /\ ret' = [ret EXCEPT ![i] = o]
            /\ UNCHANGED firstFail
       ELSE IF shouldRetry(o) /\ Len(calls[i]) < 3
       THEN /\ task' = [task EXCEPT ![i] = "backoff"]
            /\ UNCHANGED <<ret, firstFail>>
       ELSE /\ task' = [task EXCEPT ![i] = "fatal"]
            /\ ret' = [ret EXCEPT ![i] = o]
            /\ firstFail' = IF firstFail = NoOne THEN i ELSE firstFail
    /\ UNCHANGED <<aggVars, startVars, nSpecs, pkgName, mainPc, next, max, wg, sleeps, responses,
                   slotWrites, outOfOrder, handed, combinedCode, file, proc, exitBy>>

\* The second c.client.CreateChatCompletion(ctx, req) answers o.
SecondAttempt(i, o) ==
    /\ proc = "running" /\ task[i] = "attempt2"
    /\ calls' = [calls EXCEPT ![i] = Append(@, [req |-> Request(i), outcome |-> o])]
    /\ ret' = [ret EXCEPT ![i] = o]
    /\ IF o.ok
       THEN /\ task' = [task EXCEPT ![i] = "returned"]
            /\ UNCHANGED firstFail
       ELSE /\ task' = [task EXCEPT ![i] = "fatal"]
            /\ firstFail' = IF firstFail = NoOne THEN i ELSE firstFail
    /\ UNCHANGED <<aggVars, startVars, nSpecs, pkgName, mainPc, next, max, wg, sleeps, responses,
                   slotWrites, outOfOrder, handed, combinedCode, file, proc, exitBy>>

\* A goroutine that reads the loop's variable instead of its own parameter.
slotOf_LoopVariable(i) == next - 1

\* The index the goroutine of item i assigns: its own parameter i.
slotOf(i) == i

\* responses[i] = code.  CreateChatCompletion has returned: its attempts and
\* its pause are no longer part of the state.
Store(i) ==
    /\ proc = "running" /\ task[i] = "returned"
    /\ responses' = [responses EXCEPT ![slotOf(i)] = ret[i].val]
    /\ slotWrites' = [slotWrites EXCEPT ![slotOf(i)] = Append(@, i)]
    /\ outOfOrder' = (outOfOrder \/ \E j \in 0..(i - 1) : slotWrites[j] = <<>>)
    /\ task' = [task EXCEPT ![i] = "stored"]
    /\ calls' = [calls EXCEPT ![i] = <<>>]
    /\ sleeps' = [sleeps EXCEPT ![i] = <<>>]
    /\ UNCHANGED <<aggVars, startVars, nSpecs, pkgName, mainPc, next, max, wg, ret,
                   firstFail, handed, combinedCode, file, proc, exitBy>>

\* A task that ends without taking its token back out of the channel.
Release_KeepsSlot(i) ==
    /\ proc = "running" /\ task[i] = "stored"
    /\ task' = [task EXCEPT ![i] = "released"]
    /\ UNCHANGED <<aggVars, startVars, nSpecs, pkgName, mainPc, next, max, wg, calls,
                   sleeps, ret, responses, slotWrites, outOfOrder, firstFail, handed,
                   combinedCode, file, proc, exitBy>>

\* The deferred func() { <-max }(), run first.
Release(i) ==
    /\ proc = "running" /\ task[i] = "stored"
    /\ max > 0
    /\ max' = max - 1
    /\ task' = [task EXCEPT ![i] = "released"]
    /\ UNCHANGED <<aggVars, startVars, nSpecs, pkgName, mainPc, next, wg, calls, sleeps, ret,
                   responses, slotWrites, outOfOrder, firstFail, handed, combinedCode,
                   file, proc, exitBy>>

\* The deferred wg.Done(), run last.
Done(i) ==
    /\ proc = "running" /\ task[i] = "released"
    /\ wg' = wg - 1
    /\ task' = [task EXCEPT ![i] = "done"]
    /\ UNCHANGED <<aggVars, startVars, nSpecs, pkgName, mainPc, next, max, calls, sleeps, ret,
                   responses, slotWrites, outOfOrder, firstFail, handed, combinedCode,
                   file, proc, exitBy>>

\* fatalf in the goroutine of item i: the message is out, os.Exit(1) ends the
\* process.  The deferred calls do not run.
TaskExit(i) ==
    /\ proc = "running" /\ task[i] = "fatal"
    /\ proc' = "exit1"
    /\ exitBy' = i
    /\ UNCHANGED <<aggVars, startVars, nSpecs, pkgName, mainPc, next, max, wg, task, calls, sleeps,
                   ret, responses, slotWrites, outOfOrder, firstFail, handed,
                   combinedCode, file>>

\* A wait that does not join.
Wait_NoJoin ==
    /\ proc = "running" /\ mainPc = "wait"
    /\ mainPc' = "aggregate"
    /\ UNCHANGED <<aggVars, startVars, nSpecs, pkgName, next, max, wg, task, calls, sleeps, ret,
                   responses, slotWrites, outOfOrder, firstFail, handed, combinedCode,
                   file, proc, exitBy>>

\* wg.Wait() returns.
Wait ==
    /\ proc = "running" /\ mainPc = "wait"
    /\ wg = 0
    /\ mainPc' = "aggregate"
    /\ UNCHANGED <<aggVars, startVars, nSpecs, pkgName, next, max, wg, task, calls, sleeps, ret,
                   responses, slotWrites, outOfOrder, firstFail, handed, combinedCode,
                   file, proc, exitBy>>

\* The slice responses as AggregateFiles receives it.
ResponsesSeq == [k \in 1..nSpecs |-> responses[k - 1]]

\* The comment argument of main's call of AggregateFiles.
mainComment == TRUE

\* An aggregation whose structural error is swallowed.
Aggregate_IgnorePanic ==
    /\ proc = "running" /\ mainPc = "aggregate"
    /\ handed' = ResponsesSeq
    /\ combinedCode' = AggregateFiles(pkgName, ResponsesSeq, mainComment).text
    /\ mainPc' = "write"
    /\ UNCHANGED <<aggVars, startVars, nSpecs, pkgName, next, max, wg, task, calls, sleeps, ret,
                   responses, slotWrites, outOfOrder, firstFail, file, proc, exitBy>>

\* combinedCode := AggregateFiles(pkgName, responses, true)
Aggregate ==
    /\ proc = "running" /\ mainPc = "aggregate"
    /\ handed' = ResponsesSeq
    /\ LET r == AggregateFiles(pkgName, ResponsesSeq, mainComment)
       IN  IF r.panic
           THEN /\ proc' = "panic"
                /\ exitBy' = MainId
                /\ UNCHANGED <<mainPc, combinedCode>>
           ELSE /\ combinedCode' = r.text
                /\ mainPc' = "write"
                /\ UNCHANGED <<proc, exitBy>>
    /\ UNCHANGED <<aggVars, startVars, nSpecs, pkgName, next, max, wg, task, calls, sleeps, ret,
                   responses, slotWrites, outOfOrder, firstFail, file>>

\* WriteToFile(out, fPath) ending at "open" (OpenFile failed), "write"
\* (WriteString failed after n lines), "sync" (Sync failed) or "ok".
WriteToFile(f, out, how, n) ==
    CASE how = "open" -> f
      [] how = "write" -> [opens |-> f.opens + 1, content |-> SubSeq(out, 1, n)]
      [] OTHER -> [opens |-> f.opens + 1, content |-> out]

\* err = WriteToFile(combinedCode, *outputFilePath), fatalf on an error.
Write(how, n) ==
    /\ proc = "running" /\ mainPc = "write"
    /\ file' = WriteToFile(file, combinedCode, how, n)
    /\ IF how = "ok"
       THEN /\ mainPc' = "done"
            /\ proc' = "exit0"
            /\ UNCHANGED exitBy
       ELSE /\ proc' = "exit1"
            /\ exitBy' = MainId
            /\ UNCHANGED mainPc
    /\ UNCHANGED <<aggVars, startVars, nSpecs, pkgName, next, max, wg, task, calls, sleeps, ret,
                   responses, slotWrites, outOfOrder, firstFail, handed, combinedCode>>

Next ==
    \/ Dispatch
    \/ LoopEnd
    \/ \E i \in Items : \E o \in Outcomes(i) : FirstAttempt(i, o)
    \/ \E i \in Items : Backoff(i)
    \/ \E i \in Items : \E o \in Outcomes(i) : SecondAttempt(i, o)
    \/ \E i \in Items : Store(i)
    \/ \E i \in Items : Release(i)
    \/ \E i \in Items : Done(i)
    \/ \E i \in Items : TaskExit(i)
    \/ Wait
    \/ Aggregate
    \/ \E how \in {"ok", "open", "sync"} : Write(how, 0)
    \/ \E n \in 0..(Len(combinedCode) - 1) : Write("write", n)

Spec == Init /\ [][Next]_vars

\* SpecFair: the same run under a scheduler and a backend that do not stop
\* while a step is possible: a runnable goroutine is run, a pending request
\* is answered, a sleep ends.  The package name, which the dispatcher never
\* reads, is the empty one.
InitFair == Init /\ pkgName = <<>>

SpecFair == InitFair /\ [][Next]_vars /\ WF_vars(Next)

RunParked ==
    /\ nSpecs = 0
    /\ pkgName = <<>>
    /\ mainPc = "off"
    /\ next = 0
    /\ max = 0
    /\ wg = 0
    /\ task = <<>>
    /\ calls = <<>>
    /\ sleeps = <<>>
    /\ ret = <<>>
    /\ responses = <<>>
    /\ slotWrites = <<>>
    /\ outOfOrder = FALSE
    /\ firstFail = NoOne
    /\ handed = <<>>
    /\ combinedCode = <<>>
    /\ file = [opens |-> 0, content |-> <<>>]
    /\ proc = "off"
    /\ exitBy = NoOne

(***************************************************************************)
(* SpecAgg: AggregateFiles applied to every bounded input.                 *)
(***************************************************************************)
InitAgg ==
    /\ RunParked
    /\ StartParked
    /\ \E lens \in LenSeqs(MaxFrags, MaxTotalLines) :
          \E flat \in [1..SumSeq(lens) -> LineVocab] : fs = Cut(flat, lens)
    /\ aggPc = "ready"
    /\ aggArgs = [pkgName |-> <<>>, comment |-> FALSE]
    /\ aggSt = EmptySt
    /\ aggOut = <<>>

AggregateReturns(p, c) ==
    /\ aggPc = "ready"
    /\ ~AggregateFiles(p, fs, c).panic
    /\ aggPc' = "returned"
    /\ aggArgs' = [pkgName |-> p, comment |-> c]
    /\ aggSt' = AggregateSections(fs, c)
    /\ aggOut' = AggregateFiles(p, fs, c).text
    /\ UNCHANGED <<fs, runVars, startVars>>

AggregatePanics(p, c) ==
    /\ aggPc = "ready"
    /\ AggregateFiles(p, fs, c).panic
    /\ aggPc' = "panicked"
    /\ aggArgs' = [pkgName |-> p, comment |-> c]
    /\ UNCHANGED <<fs, aggSt, aggOut, runVars, startVars>>

NextAgg ==
    \/ \E p \in PkgNames, c \in BOOLEAN : AggregateReturns(p, c)
    \/ \E p \in PkgNames, c \in BOOLEAN : AggregatePanics(p, c)

SpecAgg == InitAgg /\ [][NextAgg]_vars

\* SpecAggOrder: AggregateFiles applied to every bounded input with the empty
\* package name, which the loops over the fragments never read.
NextAggOrder ==
    \/ \E c \in BOOLEAN : AggregateReturns(<<>>, c)
    \/ \E c \in BOOLEAN : AggregatePanics(<<>>, c)

SpecAggOrder == InitAgg /\ [][NextAggOrder]_vars

(***************************************************************************)
(* The streamed call: the body shared by GenerateSpec, GenerateTestsList   *)
(* and GenerateTestCases.                                                  *)
(***************************************************************************)

\* A streamed call that asks again after a rate-limit or server error.
StreamOpen_Retries(op, o) ==
    /\ proc = "running" /\ stream[op].pc = "open"
    /\ stream' = [stream EXCEPT ![op] =
          IF o.ok
          THEN [@ EXCEPT !.pc = "recv", !.opens = Append(@, o)]
          ELSE IF shouldRetry(o) /\ Len(stream[op].opens) = 0
          THEN [@ EXCEPT !.opens = Append(@, o)]
          ELSE [@ EXCEPT !.pc = "returned", !.opens = Append(@, o), !.ret = o]]
    /\ UNCHANGED <<aggVars, runVars, launch, apiKey, client, src, concatPc,
                   concatenatedCode>>

\* stream, err := c.client.CreateChatCompletionStream(ctx, req) answers o;
\* if err != nil { return "", err }.
StreamOpen(op, o) ==
    /\ proc = "running" /\ stream[op].pc = "open"
    /\ stream' = [stream EXCEPT ![op] =
          IF o.ok
          THEN [@ EXCEPT !.pc = "recv", !.opens = Append(@, o)]
          ELSE [@ EXCEPT !.pc = "returned", !.opens = Append(@, o), !.ret = o]]
    /\ UNCHANGED <<aggVars, runVars, launch, apiKey, client, src, concatPc,
                   concatenatedCode>>

\* A receive loop that hands back what it has when the stream breaks.
StreamRecv_KeepsPartial(op, ev) ==
    /\ proc = "running" /\ stream[op].pc = "recv"
    /\ ev.kind = "delta" => NumDeltas(stream[op].events) < MaxDeltas
    /\ stream' = [stream EXCEPT ![op] =
          CASE ev.kind = "eof" ->
                 [@ EXCEPT !.pc = "returned", !.events = Append(@, ev),
                           !.ret = OkOutcome(stream[op].result)]
            [] ev.kind = "err" ->
                 [@ EXCEPT !.pc = "returned", !.events = Append(@, ev),
                           !.ret = [ev.err EXCEPT !.val = stream[op].result]]
            [] ev.kind = "nochoice" ->
                 [@ EXCEPT !.pc = "panicked", !.events = Append(@, ev)]
            [] OTHER ->
                 [@ EXCEPT !.events = Append(@, ev),
                           !.result = stream[op].result \o ev.text]]
    /\ IF ev.kind = "nochoice"
       THEN proc' = "panic" /\ exitBy' = MainId
       ELSE UNCHANGED <<proc, exitBy>>
    /\ UNCHANGED <<aggVars, nSpecs, pkgName, mainPc, next, max, wg, task, calls,
                   sleeps, ret, responses, slotWrites, outOfOrder, firstFail,
                   handed, combinedCode, file, launch, apiKey, client, src,
                   concatPc, concatenatedCode>>

\* One turn of the receive loop: response, err := stream.Recv() yields ev.
\* io.EOF returns result; another error returns "" and the error; a chunk
\* without a choice makes response.Choices[0] panic; a delta is appended.
StreamRecv(op, ev) ==
    /\ proc = "running" /\ stream[op].pc = "recv"
    /\ ev.kind = "delta" => NumDeltas(stream[op].events) < MaxDeltas
    /\ stream' = [stream EXCEPT ![op] =
          CASE ev.kind = "eof" ->
                 [@ EXCEPT !.pc = "returned", !.events = Append(@, ev),
                           !.ret = OkOutcome(stream[op].result)]
            [] ev.kind = "err" ->
                 [@ EXCEPT !.pc = "returned", !.events = Append(@, ev),
                           !.ret = ev.err]
            [] ev.kind = "nochoice" ->
                 [@ EXCEPT !.pc = "panicked", !.events = Append(@, ev)]
            [] OTHER ->
                 [@ EXCEPT !.events = Append(@, ev),
                           !.result = stream[op].result \o ev.text]]
    /\ IF ev.kind = "nochoice"
       THEN proc' = "panic" /\ exitBy' = MainId
       ELSE UNCHANGED <<proc, exitBy>>
    /\ UNCHANGED <<aggVars, nSpecs, pkgName, mainPc, next, max, wg, task, calls,
                   sleeps, ret, responses, slotWrites, outOfOrder, firstFail,
                   handed, combinedCode, file, launch, apiKey, client, src,
                   concatPc, concatenatedCode>>

(***************************************************************************)
(* SpecClient: the client's operations, each called once on a backend that *)
(* answers as it likes: the streamed GenerateSpec and GenerateTestsList,   *)
(* and GenerateTestCode, the unary call made by the goroutine of item 0.   *)
(***************************************************************************)
InitClient ==
    /\ AggParked
    /\ launch = [required |-> TRUE, cases |-> FALSE, what |-> FALSE, out |-> TRUE]
    /\ apiKey = TRUE
    /\ client = "ok"
    /\ src = <<>>
    /\ concatPc = "off"
    /\ concatenatedCode = <<>>
    /\ stream = [op \in StreamOps |->
                    IF op \in {"GenerateSpec", "GenerateTestsList"}
                    THEN CalledStream ELSE IdleStream]
    /\ nSpecs = 1
    /\ pkgName = <<>>
    /\ mainPc = "loop"
    /\ next = 1
    /\ max = 1
    /\ wg = 1
    /\ task = [i \in Items |-> "attempt1"]
    /\ calls = [i \in Items |-> <<>>]
    /\ sleeps = [i \in Items |-> <<>>]
    /\ ret = [i \in Items |-> NoOutcome]
    /\ responses = [i \in Items |-> <<LEmpty>>]
    /\ slotWrites = [i \in Items |-> <<>>]
    /\ outOfOrder = FALSE
    /\ firstFail = NoOne
    /\ handed = <<>>
    /\ combinedCode = <<>>
    /\ file = [opens |-> 0, content |-> <<>>]
    /\ proc = "running"
    /\ exitBy = NoOne

NextClient ==
    \/ \E op \in StreamOps : \E o \in BackendErrors \cup {StreamOpened} :
          StreamOpen(op, o)
    \/ \E op \in StreamOps : \E ev \in Events : StreamRecv(op, ev)
    \/ \E i \in Items : \E o \in Outcomes(i) : FirstAttempt(i, o)
    \/ \E i \in Items : Backoff(i)
    \/ \E i \in Items : \E o \in Outcomes(i) : SecondAttempt(i, o)

SpecClient == InitClient /\ [][NextClient]_vars

(***************************************************************************)
(* ConcatFiles: the source bundle.  A code file is readable or not, and a  *)
(* readable one holds the lines of its content.                            *)
(***************************************************************************)

\* A run of bytes longer than bufio.MaxScanTokenSize, which a bufio.Scanner
\* refuses to return as one line.
Long == "<65536 bytes>"

TooLong(line) == \E k \in 1..Len(line) : line[k] = Long

\* The scanner loop on the first file, from line k on: the rest of the first
\* line that has the prefix "package ", and scanner.Err().
RECURSIVE ScanPackage(_, _)
ScanPackage(lines, k) ==
    IF k > Len(lines)
    THEN [err |-> FALSE, name |-> <<>>]
    ELSE IF TooLong(lines[k])
    THEN [err |-> TRUE, name |-> <<>>]
    ELSE IF HasPrefix(lines[k], <<"package", " ">>)
    THEN [err |-> FALSE, name |-> TrimPrefix(lines[k], <<"package", " ">>)]
    ELSE ScanPackage(lines, k + 1)

\* A loop that scans every file for the package name.
RECURSIVE ReadFrom_EveryFile(_, _, _, _)
ReadFrom_EveryFile(files, k, pkg, rfs) ==
    IF k > Len(files)
    THEN [err |-> FALSE, pkgName |-> pkg, rfs |-> rfs]
    ELSE IF ~files[k].ok
    THEN [err |-> TRUE, pkgName |-> <<>>, rfs |-> <<>>]
    ELSE LET sc == ScanPackage(files[k].lines, 1)
         IN  IF sc.err
             THEN [err |-> TRUE, pkgName |-> <<>>, rfs |-> <<>>]
             ELSE ReadFrom_EveryFile(files, k + 1,
                                     IF sc.name # <<>> THEN sc.name ELSE pkg,
                                     Append(rfs, files[k].lines))

\* The loop over the files, from file k on: os.ReadFile, rfs = append(rfs, ...)
\* and, for the first file only, the scan for the package name.
RECURSIVE ReadFrom(_, _, _, _)
ReadFrom(files, k, pkg, rfs) ==
    IF k > Len(files)
    THEN [err |-> FALSE, pkgName |-> pkg, rfs |-> rfs]
    ELSE IF ~files[k].ok
    THEN [err |-> TRUE, pkgName |-> <<>>, rfs |-> <<>>]
    ELSE IF k = 1
    THEN LET sc == ScanPackage(files[k].lines, 1)
         IN  IF sc.err
             THEN [err |-> TRUE, pkgName |-> <<>>, rfs |-> <<>>]
             ELSE ReadFrom(files, k + 1, sc.name, Append(rfs, files[k].lines))
    ELSE ReadFrom(files, k + 1, pkg, Append(rfs, files[k].lines))

\* The comment argument of ConcatFiles' call of AggregateFiles.
concatComment == FALSE

\* pkgName, files, err of ConcatFiles(fs), or the panic of AggregateFiles.
ConcatFiles(files) ==
    LET rd == ReadFrom(files, 1, <<>>, <<>>)
    IN  IF rd.err
        THEN [err |-> TRUE, panic |-> FALSE, pkgName |-> <<>>, files |-> <<>>]
        ELSE LET a == AggregateFiles(rd.pkgName, rd.rfs, concatComment)
             IN  [err |-> FALSE, panic |-> a.panic, pkgName |-> rd.pkgName,
                  files |-> a.text]

LPkgWhatever == <<"package", " ", "whatever">>
LIndentedPkg == <<" ", "package", " ", "x">>
LLong == <<"var", " ", Long>>
LFunc == <<"func", " ", "F">>

SrcVocab == {LPackage, LPkgWhatever, LIndentedPkg, LLong, LFunc, LOpen}

Readable(lines) == [ok |-> TRUE, lines |-> lines]
Unreadable == [ok |-> FALSE, lines |-> <<LEmpty>>]

(***************************************************************************)
(* The start of main, and its case-generation mode.                        *)
(***************************************************************************)

\* strings.Split(text, "\n") on a string of tokens.
RECURSIVE SplitLines(_, _)
SplitLines(text, cur) ==
    IF text = <<>>
    THEN <<cur>>
    ELSE IF Head(text) = "\n"
    THEN <<cur>> \o SplitLines(Tail(text), <<>>)
    ELSE SplitLines(Tail(text), Append(cur, Head(text)))

\* strings.Join(lines, "\n")
RECURSIVE JoinLines(_)
JoinLines(lines) ==
    IF lines = <<>>
    THEN <<>>
    ELSE IF Len(lines) = 1
    THEN Head(lines)
    ELSE Head(lines) \o <<"\n">> \o JoinLines(Tail(lines))

Contains(line, tok) == \E k \in 1..Len(line) : line[k] = tok

RECURSIVE FilterFences(_)
FilterFences(lines) ==
    IF lines = <<>>
    THEN <<>>
    ELSE IF Contains(Head(lines), Fence)
    THEN FilterFences(Tail(lines))
    ELSE <<Head(lines)>> \o FilterFences(Tail(lines))

removeYamlLines(input) == JoinLines(FilterFences(SplitLines(input, <<>>)))

\* The command lines: the required flags missing; the case-generation mode
\* with and without -what; the code-generation mode with and without
\* -output-file.  A flag the path taken never reads is left out.
Launches ==
    {[required |-> FALSE, cases |-> FALSE, what |-> FALSE, out |-> FALSE],
     [required |-> TRUE, cases |-> TRUE, what |-> TRUE, out |-> FALSE],
     [required |-> TRUE, cases |-> TRUE, what |-> FALSE, out |-> FALSE],
     [required |-> TRUE, cases |-> FALSE, what |-> FALSE, out |-> TRUE],
     [required |-> TRUE, cases |-> FALSE, what |-> FALSE, out |-> FALSE]}

\* The code files of a run of main: with a package line, without one,
\* unreadable, and with an import block that never closes.
MainSources ==
    {<<Readable(<<LPkgWhatever, LFunc>>)>>,
     <<Readable(<<LFunc>>), Readable(<<LPackage>>)>>,
     <<Readable(<<LPkgWhatever>>), Unreadable>>,
     <<Readable(<<LOpen, LFunc>>)>>}

\* fatalf called by main: the message, then os.Exit(1).
MainFatal ==
    /\ proc' = "exit1"
    /\ exitBy' = MainId

\* if *specFilePath == "" || *codeFiles == "" { fatalf(...) }
CheckFlags ==
    /\ proc = "running" /\ mainPc = "flags"
    /\ IF launch.required
       THEN mainPc' = "concat" /\ UNCHANGED <<proc, exitBy>>
       ELSE MainFatal /\ UNCHANGED mainPc
    /\ UNCHANGED <<aggVars, startVars, nSpecs, pkgName, next, max, wg, task, calls,
                   sleeps, ret, responses, slotWrites, outOfOrder, firstFail,
                   handed, combinedCode, file>>

\* pkgName, concatenatedCode, err := ConcatFiles(codeFilePaths), fatalf on an
\* error; a panic of AggregateFiles ends the process.
Concat ==
    /\ proc = "running" /\ mainPc = "concat"
    /\ LET r == ConcatFiles(src)
       IN  IF r.err
           THEN /\ concatPc' = "failed"
                /\ MainFatal
                /\ UNCHANGED <<pkgName, concatenatedCode, mainPc>>
           ELSE IF r.panic
           THEN /\ concatPc' = "panicked"
                /\ proc' = "panic"
                /\ exitBy' = MainId
                /\ UNCHANGED <<pkgName, concatenatedCode, mainPc>>
           ELSE /\ concatPc' = "returned"
                /\ pkgName' = r.pkgName
                /\ concatenatedCode' = r.files
                /\ mainPc' = "client"
                /\ UNCHANGED <<proc, exitBy>>
    /\ UNCHANGED <<aggVars, launch, apiKey, client, src, stream, nSpecs, next, max,
                   wg, task, calls, sleeps, ret, responses, slotWrites, outOfOrder,
                   firstFail, handed, combinedCode, file>>

\* A client built without looking at the credential.
NewClient_NoCheck ==
    /\ proc = "running" /\ mainPc = "client"
    /\ client' = "ok"
    /\ mainPc' = IF launch.cases THEN "what" ELSE "out"
    /\ UNCHANGED <<aggVars, launch, apiKey, src, concatPc, concatenatedCode, stream,
                   nSpecs, pkgName, next, max, wg, task, calls, sleeps, ret,
                   responses, slotWrites, outOfOrder, firstFail, handed,
                   combinedCode, file, proc, exitBy>>

\* apiClient, err := NewClient(*model, *maxTokens), fatalf on an error:
\* NewClient fails when OPENAI_API_KEY is empty.
NewClient ==
    /\ proc = "running" /\ mainPc = "client"
    /\ IF apiKey
       THEN /\ client' = "ok"
            /\ mainPc' = IF launch.cases THEN "what" ELSE "out"
            /\ UNCHANGED <<proc, exitBy>>
       ELSE /\ client' = "failed"
            /\ MainFatal
            /\ UNCHANGED mainPc
    /\ UNCHANGED <<aggVars, launch, apiKey, src, concatPc, concatenatedCode, stream,
                   nSpecs, pkgName, next, max, wg, task, calls, sleeps, ret,
                   responses, slotWrites, outOfOrder, firstFail, handed,
                   combinedCode, file>>

\* if whatToTest != nil && *whatToTest == "" { fatalf(...) }
CheckWhat ==
    /\ proc = "running" /\ mainPc = "what"
    /\ IF launch.what
       THEN mainPc' = "list" /\ UNCHANGED <<proc, exitBy>>
       ELSE MainFatal /\ UNCHANGED mainPc
    /\ UNCHANGED <<aggVars, startVars, nSpecs, pkgName, next, max, wg, task, calls,
                   sleeps, ret, responses, slotWrites, outOfOrder, firstFail,
                   handed, combinedCode, file>>

\* The streamed operation main is at.
MainOp == IF mainPc = "list" THEN "GenerateTestsList" ELSE "GenerateTestCases"

\* main calls apiClient.GenerateTestsList(...) or apiClient.GenerateTestCases(...).
CallStreamed ==
    /\ proc = "running" /\ mainPc \in {"list", "cases"}
    /\ stream[MainOp].pc = "idle"
    /\ stream' = [stream EXCEPT ![MainOp] = CalledStream]
    /\ UNCHANGED <<aggVars, runVars, launch, apiKey, client, src, concatPc,
                   concatenatedCode>>

\* The streamed operation has returned to main: fatalf on an error.
StreamedReturns ==
    /\ proc = "running" /\ mainPc \in {"list", "cases"}
    /\ stream[MainOp].pc = "returned"
    /\ IF stream[MainOp].ret.ok
       THEN /\ mainPc' = IF mainPc = "list" THEN "cases" ELSE "writeCases"
            /\ UNCHANGED <<proc, exitBy>>
       ELSE MainFatal /\ UNCHANGED mainPc
    /\ UNCHANGED <<aggVars, startVars, nSpecs, pkgName, next, max, wg, task, calls,
                   sleeps, ret, responses, slotWrites, outOfOrder, firstFail,
                   handed, combinedCode, file>>

\* s = "testing: " + *whatToTest + "\n" + removeYamlLines(s)
CasesText ==
    <<"testing: ", "what", "\n">>
        \o removeYamlLines(stream["GenerateTestCases"].ret.val)

\* err = WriteToFile(s, *specFilePath), fatalf on an error; return.
WriteCases(how, n) ==
    /\ proc = "running" /\ mainPc = "writeCases"
    /\ file' = WriteToFile(file, CasesText, how, n)
    /\ IF how = "ok"
       THEN /\ mainPc' = "done"
            /\ proc' = "exit0"
            /\ UNCHANGED exitBy
       ELSE MainFatal /\ UNCHANGED mainPc
    /\ UNCHANGED <<aggVars, startVars, nSpecs, pkgName, next, max, wg, task, calls,
                   sleeps, ret, responses, slotWrites, outOfOrder, firstFail,
                   handed, combinedCode>>

\* if *outputFilePath == "" { fatalf(...) }
CheckOut ==
    /\ proc = "running" /\ mainPc = "out"
    /\ IF launch.out
       THEN mainPc' = "load" /\ UNCHANGED <<proc, exitBy>>
       ELSE MainFatal /\ UNCHANGED mainPc
    /\ UNCHANGED <<aggVars, startVars, nSpecs, pkgName, next, max, wg, task, calls,
                   sleeps, ret, responses, slotWrites, outOfOrder, firstFail,
                   handed, combinedCode, file>>

\* specs, err := LoadTestSpecs(*specFilePath), fatalf on an error;
\* responses := make([]string, len(specs.Specs)).
LoadTestSpecs(ok) ==
    /\ proc = "running" /\ mainPc = "load"
    /\ IF ok
       THEN mainPc' = "loop" /\ UNCHANGED <<proc, exitBy>>
       ELSE MainFatal /\ UNCHANGED mainPc
    /\ UNCHANGED <<aggVars, startVars, nSpecs, pkgName, next, max, wg, task, calls,
                   sleeps, ret, responses, slotWrites, outOfOrder, firstFail,
                   handed, combinedCode, file>>

(***************************************************************************)
(* SpecMain: main from the parsed command line to the end of the process,  *)
(* in the case-generation mode and in the code-generation mode.            *)
(***************************************************************************)
InitMain ==
    /\ AggParked
    /\ launch \in Launches
    /\ apiKey \in BOOLEAN
    /\ client = "none"
    /\ src \in MainSources
    /\ concatPc = "ready"
    /\ concatenatedCode = <<>>
    /\ stream = [op \in StreamOps |-> IdleStream]
    /\ nSpecs \in 0..MaxSpecs
    /\ pkgName = <<>>
    /\ mainPc = "flags"
    /\ next = 0
    /\ max = 0
    /\ wg = 0
    /\ task = [i \in Items |-> "idle"]
    /\ calls = [i \in Items |-> <<>>]
    /\ sleeps = [i \in Items |-> <<>>]
    /\ ret = [i \in Items |-> NoOutcome]
    /\ responses = [i \in Items |-> <<LEmpty>>]
    /\ slotWrites = [i \in Items |-> <<>>]
    /\ outOfOrder = FALSE
    /\ firstFail = NoOne
    /\ handed = <<>>
    /\ combinedCode = <<>>
    /\ file = [opens |-> 0, content |-> <<>>]
    /\ proc = "running"
    /\ exitBy = NoOne

NextMain ==
    \/ CheckFlags
    \/ Concat
    \/ NewClient
    \/ CheckWhat
    \/ CallStreamed
    \/ \E op \in StreamOps : \E o \in BackendErrors \cup {StreamOpened} :
          StreamOpen(op, o)
    \/ \E op \in StreamOps : \E ev \in Events : StreamRecv(op, ev)
    \/ StreamedReturns
    \/ \E how \in {"ok", "open", "sync"} : WriteCases(how, 0)
    \/ \E n \in 0..(Len(CasesText) - 1) : WriteCases("write", n)
    \/ CheckOut
    \/ \E ok \in BOOLEAN : LoadTestSpecs(ok)
    \/ Next

SpecMain == InitMain /\ [][NextMain]_vars

(***************************************************************************)
(* SpecConcat: ConcatFiles applied to every bounded set of code files.     *)
(***************************************************************************)
InitConcat ==
    /\ AggParked
    /\ launch = [required |-> TRUE, cases |-> FALSE, what |-> FALSE, out |-> TRUE]
    /\ apiKey = TRUE
    /\ client = "none"
    /\ \E lens \in LenSeqs(MaxFiles, MaxSrcLines) \ {<<>>} :
          \E flat \in [1..SumSeq(lens) -> SrcVocab] :
             \E rd \in [1..Len(lens) -> BOOLEAN] :
                src = [k \in 1..Len(lens) |->
                          IF rd[k] THEN Readable(Cut(flat, lens)[k]) ELSE Unreadable]
    /\ concatPc = "ready"
    /\ concatenatedCode = <<>>
    /\ stream = [op \in StreamOps |-> IdleStream]
    /\ nSpecs = 0
    /\ pkgName = <<>>
    /\ mainPc = "concat"
    /\ next = 0
    /\ max = 0
    /\ wg = 0
    /\ task = <<>>
    /\ calls = <<>>
    /\ sleeps = <<>>
    /\ ret = <<>>
    /\ responses = <<>>
    /\ slotWrites = <<>>
    /\ outOfOrder = FALSE
    /\ firstFail = NoOne
    /\ handed = <<>>
    /\ combinedCode = <<>>
    /\ file = [opens |-> 0, content |-> <<>>]
    /\ proc = "running"
    /\ exitBy = NoOne

NextConcat == Concat

SpecConcat == InitConcat /\ [][NextConcat]_vars

(***************************************************************************)
(* Properties of the dispatcher and of the unary call, checked under Spec. *)
(***************************************************************************)

\* The tasks that hold a token of the channel max: started, not yet released.
SlotHolders ==
    {i \in Items : task[i] \in {"attempt1", "backoff", "attempt2", "returned", "stored", "fatal"}}

\* C1: in every reachable state at most K (2) generation calls are in flight;
\* a call in its retry backoff is in flight and holds its admission slot; an
\* item is not started while K started tasks have not released their slot.
C1_InFlightAtMostK ==
    /\ Cardinality(InFlight) <= 2
    /\ InFlight \subseteq SlotHolders
    /\ Cardinality(SlotHolders) = max
    /\ max <= 2
    /\ \A i \in Items : i >= next <=> task[i] = "idle"

\* Two calls in flight, one of them asleep in its backoff, and a further item
\* waiting for a slot.
C1_Witness ==
    /\ proc = "running" /\ mainPc = "loop" /\ next < nSpecs
    /\ Cardinality(InFlight) = 2
    /\ \E i \in Items : task[i] = "backoff"

\* C2: slot i is assigned only by the task of item i, at most once, with the
\* fragment generated for item i; the sequence handed to the aggregator holds
\* the fragment of item k-1 at position k, whatever the completion order.
C2_SlotByOwnTask ==
    /\ \A i \in Items :
        /\ slotWrites[i] \in {<<>>, <<i>>}
        /\ slotWrites[i] = <<>> => responses[i] = <<LEmpty>>
        /\ slotWrites[i] = <<i>> =>
              /\ ret[i].ok
              /\ responses[i] = ret[i].val
              /\ responses[i] \in GenFrags(i)
    /\ (mainPc \in {"write", "done"} \/ proc = "panic") =>
          /\ Len(handed) = nSpecs
          /\ \A k \in 1..nSpecs : handed[k] = ret[k - 1].val /\ handed[k] \in GenFrags(k - 1)

\* The fragments were handed over after tasks had completed out of index order.
C2_Witness ==
    /\ mainPc = "write"
    /\ outOfOrder
    /\ nSpecs >= 3

\* C3: the aggregator reads the result slice only after every task has
\* assigned its slot and finished; a run ended by a task never reads it.
C3_FullJoin ==
    /\ (mainPc \in {"aggregate", "write", "done"} \/ handed # <<>> \/ proc = "panic") =>
          \A i \in Items : task[i] = "done" /\ slotWrites[i] = <<i>>
    /\ (exitBy \in Items) => (mainPc \in {"loop", "wait"} /\ handed = <<>>)

\* Aggregation has run on a batch larger than the ceiling.
C3_Witness ==
    /\ mainPc = "write"
    /\ nSpecs > 2
    /\ handed # <<>>

\* An import block opened in the fragment and not closed before its end.
Unterminated(frag) ==
    \E j \in 1..Len(frag) :
        /\ startsImportBlock(TrimSpace(frag[j]))
        /\ \A j2 \in (j + 1)..Len(frag) : ~HasPrefix(TrimSpace(frag[j2]), <<")">>)

\* C4: the output file is opened for writing at most once, and only when
\* every item's generation succeeded and the aggregation of all their
\* fragments returned; what is written is that aggregate; when an item fails
\* or a fragment has an unterminated import block the file is never written.
C4_AllOrNothing ==
    /\ file.opens <= 1
    /\ file.opens = 0 => file.content = <<>>
    /\ (mainPc \in {"write", "done"} \/ file.opens = 1) =>
          /\ \A i \in Items : task[i] = "done" /\ ret[i].ok /\ ~Unterminated(ret[i].val)
          /\ handed = [k \in 1..nSpecs |-> ret[k - 1].val]
          /\ combinedCode = combineSections(pkgName,
                                AggregateSections(handed, TRUE).imports,
                                AggregateSections(handed, TRUE).functions)
    /\ proc = "exit0" => (file.opens = 1 /\ file.content = combinedCode)
    /\ (\E i \in Items : task[i] = "fatal") => file.opens = 0
    /\ (\E i \in Items : Unterminated(responses[i])) => file.opens = 0

\* A batch of several items was generated, aggregated and written.
C4_Witness ==
    /\ proc = "exit0"
    /\ nSpecs >= 2
    /\ file.opens = 1

\* C5: a failed generation aborts the batch without waiting for the other
\* items (the exit is possible whatever the siblings do), the first failure
\* is the one that ends the run, and nothing is aggregated after the abort.
C5_FirstFailureEndsRun ==
    /\ \A i \in Items : (proc = "running" /\ task[i] = "fatal") => ENABLED TaskExit(i)
    /\ (exitBy \in Items) =>
          /\ exitBy = firstFail
          /\ handed = <<>>
          /\ file.opens = 0

\* A signal of rate limiting or of a server-side failure.
RateOrServer(o) == ~o.ok /\ (o.status = 429 \/ o.status >= 500)

CallOver(i) == task[i] \in {"returned", "fatal"}

\* C6: a unary call whose first attempt fails with 429 or a status >= 500
\* sleeps once for 10 seconds, makes one more attempt with the same request
\* and returns that attempt's outcome, result or error; no call makes a third
\* attempt or sleeps twice.
C6_RetryOnce ==
    \A i \in Items :
        /\ Len(calls[i]) <= 2
        /\ Len(sleeps[i]) <= 1
        /\ \A k \in 1..Len(sleeps[i]) : sleeps[i][k] = 10
        /\ (Len(calls[i]) >= 1 /\ RateOrServer(calls[i][1].outcome)) =>
              /\ task[i] \in {"backoff", "attempt2", "returned", "fatal"}
              /\ task[i] = "backoff" => (Len(calls[i]) = 1 /\ sleeps[i] = <<>>)
              /\ task[i] = "attempt2" => (Len(calls[i]) = 1 /\ sleeps[i] = <<10>>)
              /\ CallOver(i) =>
                    /\ Len(calls[i]) = 2
                    /\ sleeps[i] = <<10>>
                    /\ calls[i][2].req = calls[i][1].req
                    /\ ret[i] = calls[i][2].outcome

\* A call answered 429 and then a completion, and a call answered a server
\* error twice.
C6_Witness ==
    /\ \E i \in Items :
        /\ task[i] = "returned"
        /\ Len(calls[i]) = 2
        /\ calls[i][1].outcome.status = 429
        /\ ret[i].ok
    /\ \E i \in Items :
        /\ task[i] = "fatal"
        /\ Len(calls[i]) = 2
        /\ calls[i][1].outcome.status >= 500
        /\ RateOrServer(calls[i][2].outcome)

\* C7: a unary call whose first attempt fails with anything else (a status
\* below 500 other than 429, or an error without a status) makes that one
\* attempt, does not sleep, and returns that first error.
C7_NoRetryOtherwise ==
    \A i \in Items :
        (/\ Len(calls[i]) >= 1
         /\ ~calls[i][1].outcome.ok
         /\ ~RateOrServer(calls[i][1].outcome)) =>
            /\ task[i] = "fatal"
            /\ Len(calls[i]) = 1
            /\ sleeps[i] = <<>>
            /\ ret[i] = calls[i][1].outcome

\* One call failed with status 499 and another with an error without status.
C7_Witness ==
    /\ \E i \in Items : task[i] = "fatal" /\ calls[i] # <<>> /\ calls[i][1].outcome = ApiError(499)
    /\ \E i \in Items : task[i] = "fatal" /\ calls[i] # <<>> /\ calls[i][1].outcome = OtherError

(***************************************************************************)
(* Properties of the aggregator, checked under SpecAgg.                    *)
(***************************************************************************)

IsPackageOrFence(l) ==
    isPackageDeclaration(TrimSpace(l)) \/ isGPTAddedCodeBlockDelimeter(TrimSpace(l))

\* C8: for every sequence of fragments and either comment mode, neither the
\* import section nor the body section of the result holds a package
\* declaration line or a code-fence line of an input fragment, wherever the
\* line stood in its fragment.
C8_NoPackageOrFenceLine ==
    aggPc = "returned" =>
        /\ \A k \in 1..Len(aggSt.imports) : ~IsPackageOrFence(aggSt.imports[k])
        /\ \A k \in 1..Len(aggSt.functions) : ~IsPackageOrFence(aggSt.functions[k])

\* The import entries of a fragment in the order its lines hold them: the
\* rest of a single-line import statement, and each trimmed line between a
\* block's opener and its closer.
RECURSIVE EntriesOf(_, _, _)
EntriesOf(frag, j, inBlock) ==
    IF j > Len(frag)
    THEN <<>>
    ELSE LET t == TrimSpace(frag[j])
         IN  IF inBlock
             THEN IF HasPrefix(t, <<")">>)
                  THEN EntriesOf(frag, j + 1, FALSE)
                  ELSE <<t>> \o EntriesOf(frag, j + 1, TRUE)
             ELSE IF IsPackageOrFence(t)
                  THEN EntriesOf(frag, j + 1, FALSE)
                  ELSE IF HasPrefix(t, <<"import", " ", "(">>)
                  THEN EntriesOf(frag, j + 1, TRUE)
                  ELSE IF HasPrefix(t, <<"import", " ", "\"">>)
                  THEN <<SubSeq(t, 3, Len(t))>> \o EntriesOf(frag, j + 1, FALSE)
                  ELSE EntriesOf(frag, j + 1, FALSE)

RECURSIVE SeenEntries(_)
SeenEntries(frags) ==
    IF frags = <<>>
    THEN <<>>
    ELSE EntriesOf(Head(frags), 1, FALSE) \o SeenEntries(Tail(frags))

\* The first occurrences of a sequence, in order.
RECURSIVE FirstSeen(_)
FirstSeen(seq) ==
    IF seq = <<>>
    THEN <<>>
    ELSE LET init == SubSeq(seq, 1, Len(seq) - 1)
             last == seq[Len(seq)]
         IN  IF \E k \in 1..Len(init) : init[k] = last
             THEN FirstSeen(init)
             ELSE Append(FirstSeen(init), last)

\* C9: the aggregated import section holds each distinct import entry once,
\* in first-seen order across the fragments, whether the entry came as a
\* single-line import or inside an import block.
C9_ImportsOnceFirstSeen ==
    aggPc = "returned" =>
        LET want == FirstSeen(SeenEntries(fs))
        IN  /\ Len(aggSt.imports) = Len(want)
            /\ \A k \in 1..Len(want) : aggSt.imports[k] = <<"\t">> \o want[k]
            /\ aggSt.importSet = {want[k] : k \in 1..Len(want)}

\* The same entry came as a single-line import in one fragment and inside a
\* block in the next, and the import section holds it once.
C9_Witness ==
    /\ aggPc = "returned"
    /\ Len(fs) = 2
    /\ fs[1] = <<LImportA>>
    /\ fs[2] = <<LOpen, LEntryA, LClose>>
    /\ aggSt.imports = << <<"\t", "\"", "a", "\"">> >>

\* C10: when a fragment holds an import block opener with no closing line
\* after it in that fragment, the aggregation ends in the panic: it returns no
\* artifact and does not look for the closer in the next fragment.
C10_UnterminatedIsFatal ==
    (\E k \in 1..Len(fs) : Unterminated(fs[k])) =>
        /\ aggPc # "returned"
        /\ aggOut = <<>>

\* The aggregation panicked on a first fragment left open although the next
\* fragment holds a closing line.
C10_Witness ==
    /\ aggPc = "panicked"
    /\ Len(fs) = 2
    /\ Unterminated(fs[1])
    /\ \E j \in 1..Len(fs[2]) : fs[2][j] = LClose

\* The body lines of a fragment, as they stand in it and in its order: the
\* lines that are no package line, no fence line, no single-line import and
\* no line of an import block (opener, entries, closer).
RECURSIVE BodyLinesOf(_, _, _)
BodyLinesOf(frag, j, inBlock) ==
    IF j > Len(frag)
    THEN <<>>
    ELSE LET t == TrimSpace(frag[j])
         IN  IF inBlock
             THEN BodyLinesOf(frag, j + 1, ~HasPrefix(t, <<")">>))
             ELSE IF IsPackageOrFence(t) \/ HasPrefix(t, <<"import", " ", "\"">>)
                  THEN BodyLinesOf(frag, j + 1, FALSE)
                  ELSE IF HasPrefix(t, <<"import", " ", "(">>)
                  THEN BodyLinesOf(frag, j + 1, TRUE)
                  ELSE <<frag[j]>> \o BodyLinesOf(frag, j + 1, FALSE)

\* A body line as the body section holds it: with the comment marker in
\* comment mode, verbatim otherwise.
Marked(lines, comment) ==
    [k \in 1..Len(lines) |-> (IF comment THEN <<"//", " ">> ELSE <<>>) \o lines[k]]

\* Each fragment's body lines followed by one blank line, in the order of frags.
RECURSIVE ExpectedBody(_, _)
ExpectedBody(frags, comment) ==
    IF frags = <<>>
    THEN <<>>
    ELSE Marked(BodyLinesOf(Head(frags), 1, FALSE), comment) \o << <<>> >>
         \o ExpectedBody(Tail(frags), comment)

Perms(n) == {q \in [1..n -> 1..n] : \A a, b \in 1..n : q[a] = q[b] => a = b}

Permute(seq, q) == [k \in 1..Len(seq) |-> seq[q[k]]]

\* C11: for a non-empty sequence of fragments the body section is, in input
\* order, each fragment's body lines (verbatim; each with the comment marker
\* in comment mode) followed by one blank separator line per fragment, and it
\* ends the artifact; permuting the fragments permutes these blocks and keeps
\* the order of the lines inside each.
C11_BodyInInputOrder ==
    (aggPc = "returned" /\ fs # <<>>) =>
        /\ aggSt.functions = ExpectedBody(fs, aggArgs.comment)
        /\ Len(aggOut) >= Len(aggSt.functions)
        /\ SubSeq(aggOut, Len(aggOut) - Len(aggSt.functions) + 1, Len(aggOut))
              = aggSt.functions
        /\ \A q \in Perms(Len(fs)) :
              AggregateSections(Permute(fs, q), aggArgs.comment).functions
                  = ExpectedBody(Permute(fs, q), aggArgs.comment)

\* Two fragments with different body lines, one of them blank, were
\* aggregated verbatim.
C11_Witness ==
    /\ aggPc = "returned"
    /\ ~aggArgs.comment
    /\ fs = << <<LEntryA, LEmpty>>, <<LPackage, LClose>> >>
    /\ aggSt.functions = <<LEntryA, LEmpty, <<>>, LClose, <<>> >>

\* The entries the import section holds, as a set.
ImportLines(st) == {st.imports[k] : k \in 1..Len(st.imports)}

\* C12: for every sequence of fragments and every permutation of it the
\* aggregator collects the same set of import entries (and ends the same
\* way); only the order of the entries may differ.
C12_ImportSetCommutes ==
    aggPc = "returned" =>
        \A q \in Perms(Len(fs)) :
            LET other == AggregateSections(Permute(fs, q), aggArgs.comment)
            IN  /\ ~other.panic
                /\ other.importSet = aggSt.importSet
                /\ ImportLines(other) = ImportLines(aggSt)

\* Two fragments with different imports: swapping them changes the order of
\* the import section and not its set.
C12_Witness ==
    /\ aggPc = "returned"
    /\ fs = << <<LImportA>>, <<LOpen, LImportB, LClose>> >>
    /\ Cardinality(aggSt.importSet) = 2
    /\ AggregateSections(<<fs[2], fs[1]>>, aggArgs.comment).imports # aggSt.imports

\* C13: the artifact is, in this order: the package header line exactly when
\* the package identifier is not empty; a blank line; exactly when an import
\* entry was collected, the import block (a blank line, the opener, every
\* distinct entry once in first-seen order, the closer, a blank line); the
\* body section.  Without entries no line of the artifact opens an import
\* block.
C13_FinalAssembly ==
    aggPc = "returned" =>
        LET header == IF aggArgs.pkgName # <<>>
                      THEN << <<"package", " ">> \o aggArgs.pkgName >>
                      ELSE <<>>
            ents == FirstSeen(SeenEntries(fs))
            block == IF ents # <<>>
                     THEN << <<>>, <<"import", " ", "(">> >>
                          \o [k \in 1..Len(ents) |-> <<"\t">> \o ents[k]]
                          \o << <<")">>, <<>> >>
                     ELSE <<>>
        IN  /\ aggOut = header \o << <<>> >> \o block
                        \o ExpectedBody(fs, aggArgs.comment)
            /\ ents = <<>> =>
                  \A k \in 1..Len(aggOut) : ~startsImportBlock(TrimSpace(aggOut[k]))

\* An artifact with a header, an import block of two entries and a body.
C13_Witness ==
    /\ aggPc = "returned"
    /\ aggArgs.pkgName = <<"whatever">>
    /\ Len(aggSt.imports) = 2
    /\ \E k \in 1..Len(aggSt.functions) : aggSt.functions[k] # <<>>
    /\ aggOut[1] = <<"package", " ", "whatever">>

(***************************************************************************)
(* Properties of the run of main, checked under Spec.                      *)
(***************************************************************************)

\* C14: the generated fragments are aggregated into the output artifact with
\* comment mode off: once main has aggregated, the artifact ends with every
\* fragment's body lines verbatim, without a comment marker.
C14_GeneratedCodeVerbatim ==
    mainPc \in {"write", "done"} =>
        /\ Len(combinedCode) >= Len(ExpectedBody(handed, FALSE))
        /\ SubSeq(combinedCode,
                  Len(combinedCode) - Len(ExpectedBody(handed, FALSE)) + 1,
                  Len(combinedCode)) = ExpectedBody(handed, FALSE)

(***************************************************************************)
(* Properties of the client's operations, checked under SpecClient.        *)
(***************************************************************************)

\* What kind of answer a request got: success, or which error.
Class(o) == [ok |-> o.ok, api |-> o.api, status |-> o.status]

ComparedOps == {"GenerateSpec", "GenerateTestsList", "GenerateTestCode"}

\* The answers the backend gave to the requests of an operation, in order.
OpLog(op) ==
    IF op = "GenerateTestCode"
    THEN [k \in 1..Len(calls[0]) |-> Class(calls[0][k].outcome)]
    ELSE [k \in 1..Len(stream[op].opens) |-> Class(stream[op].opens[k])]

\* The operation has returned, and no stream it opened broke on the way.
OpOver(op) ==
    IF op = "GenerateTestCode"
    THEN task[0] \in {"returned", "fatal"}
    ELSE /\ stream[op].pc = "returned"
         /\ \A k \in 1..Len(stream[op].events) : stream[op].events[k].kind # "err"

OpOk(op) == IF op = "GenerateTestCode" THEN ret[0].ok ELSE stream[op].ret.ok

IsPrefix(s, t) == Len(s) <= Len(t) /\ SubSeq(t, 1, Len(s)) = s

\* C15 as stated: two of the three operations that met the same answers of the
\* backend (the answers one got are the first answers the other got) made the
\* same number of attempts and ended in the same kind of outcome.
C15_SamePolicy ==
    \A a, b \in ComparedOps :
        (OpOver(a) /\ OpOver(b) /\ IsPrefix(OpLog(a), OpLog(b))) =>
            /\ Len(OpLog(a)) = Len(OpLog(b))
            /\ OpOk(a) = OpOk(b)

\* C15, amended: GenerateTestCode makes a second attempt exactly when its first
\* ended in a 429 or a status of 500 and above, and returns the last answer;
\* a streamed operation makes one request only and returns its error
\* unretried; the streamed operations that met the same answers and the same
\* stream returned the same.
C15_UnaryRetriesStreamedDoNot ==
    /\ \A i \in Items : CallOver(i) =>
          /\ Len(calls[i]) = IF RateOrServer(calls[i][1].outcome) THEN 2 ELSE 1
          /\ ret[i] = calls[i][Len(calls[i])].outcome
    /\ \A op \in StreamOps :
          /\ Len(stream[op].opens) <= 1
          /\ stream[op].pc \in {"recv", "returned", "panicked"} =>
                Len(stream[op].opens) = 1
          /\ (stream[op].pc = "returned" /\ ~stream[op].opens[1].ok) =>
                /\ stream[op].events = <<>>
                /\ stream[op].ret = stream[op].opens[1]
    /\ \A a, b \in StreamOps :
          (/\ stream[a].pc = "returned" /\ stream[b].pc = "returned"
           /\ stream[a].opens = stream[b].opens
           /\ stream[a].events = stream[b].events) =>
                stream[a].ret = stream[b].ret

C15_Witness ==
    /\ task[0] = "returned"
    /\ OpLog("GenerateTestCode") = <<Class(ApiError(429)), Class(StreamOpened)>>
    /\ \A op \in {"GenerateSpec", "GenerateTestsList"} :
          /\ stream[op].pc = "returned"
          /\ stream[op].opens = <<ApiError(429)>>
          /\ ~stream[op].ret.ok

(***************************************************************************)
(* Properties of the streamed calls and of the start of main, checked      *)
(* under SpecMain.                                                         *)
(***************************************************************************)

\* The deltas of the chunks among events, one after the other.
RECURSIVE DeltasInOrder(_)
DeltasInOrder(events) ==
    IF events = <<>>
    THEN <<>>
    ELSE (IF Head(events).kind = "delta" THEN Head(events).text ELSE <<>>)
             \o DeltasInOrder(Tail(events))

\* Every event but the last is a chunk with a delta.
OnlyDeltasBeforeLast(events) ==
    \A k \in 1..(Len(events) - 1) : events[k].kind = "delta"

\* C16: a streamed call that returns a text returns the deltas received before
\* the end-of-stream signal, concatenated in arrival order, and returns only
\* when that signal has arrived; an error on opening the stream or in the
\* stream ends the call where it first occurs, after a single request, and the
\* call then returns the error and the empty text, not what it accumulated.
C16_StreamedCall ==
    \A op \in StreamOps :
        LET s == stream[op]
            last == s.events[Len(s.events)]
        IN  /\ Len(s.opens) <= 1
            /\ s.pc \in {"idle", "open"} => s.opens = <<>> /\ s.events = <<>>
            /\ s.pc = "recv" =>
                  /\ s.opens = <<StreamOpened>>
                  /\ \A k \in 1..Len(s.events) : s.events[k].kind = "delta"
                  /\ s.result = DeltasInOrder(s.events)
                  /\ s.ret = NoOutcome
            /\ (s.pc = "returned" /\ s.ret.ok) =>
                  /\ s.opens = <<StreamOpened>>
                  /\ s.events # <<>> /\ last.kind = "eof"
                  /\ OnlyDeltasBeforeLast(s.events)
                  /\ s.ret.val = DeltasInOrder(s.events)
            /\ (s.pc = "returned" /\ ~s.ret.ok) =>
                  /\ s.ret.val = <<>>
                  /\ IF s.opens[1].ok
                     THEN /\ s.events # <<>> /\ last.kind = "err"
                          /\ OnlyDeltasBeforeLast(s.events)
                          /\ s.ret = last.err
                     ELSE s.events = <<>> /\ s.ret = s.opens[1]

C16_Witness ==
    /\ stream["GenerateTestsList"].pc = "returned"
    /\ stream["GenerateTestsList"].events
          = <<Chunk(<<"cases:">>), Chunk(<<"\n", Fence, "yaml">>), EOF>>
    /\ stream["GenerateTestsList"].ret = OkOutcome(<<"cases:", "\n", Fence, "yaml">>)
    /\ stream["GenerateTestCases"].pc = "returned"
    /\ stream["GenerateTestCases"].events
          = <<Chunk(<<"cases:">>), RecvError(ApiError(429))>>
    /\ stream["GenerateTestCases"].ret = ApiError(429)
    /\ proc = "exit1"

\* A client operation has been entered: a request to the backend is being
\* made or has been made.
BackendUsed ==
    \/ \E op \in StreamOps : stream[op].pc # "idle"
    \/ \E i \in Items : task[i] # "idle"

\* C17: in both modes no request reaches the backend unless NewClient found
\* the credential; without the credential the run never gets past NewClient,
\* whose failure ends it with exit status 1, and never ends with success.
C17_NoRequestWithoutCredential ==
    /\ BackendUsed => (apiKey /\ client = "ok")
    /\ client = "failed" => (~apiKey /\ proc = "exit1" /\ exitBy = MainId)
    /\ ~apiKey =>
          /\ mainPc \in {"flags", "concat", "client"}
          /\ client # "ok"
          /\ proc # "exit0"
          /\ file.opens = 0

C17_Witness ==
    /\ ~apiKey
    /\ launch.cases /\ launch.what
    /\ concatPc = "returned"
    /\ client = "failed"
    /\ proc = "exit1"
    /\ ~BackendUsed

(***************************************************************************)
(* Properties of the source bundle, checked under SpecConcat.              *)
(***************************************************************************)

PackagePrefix == <<"package", " ">>

\* The positions of the lines that begin with the package prefix.
PackageLines(lines) == {k \in 1..Len(lines) : HasPrefix(lines[k], PackagePrefix)}

FirstOf(S) == CHOOSE k \in S : \A j \in S : k <= j

\* What follows the prefix on the first package line, or the empty string.
DeclaredPackage(lines) ==
    IF PackageLines(lines) = {}
    THEN <<>>
    ELSE SubSeq(lines[FirstOf(PackageLines(lines))], Len(PackagePrefix) + 1,
                Len(lines[FirstOf(PackageLines(lines))]))

\* The scanner meets a line it cannot return before it meets a package line.
ScanBreaks(lines) ==
    \E k \in 1..Len(lines) :
        /\ TooLong(lines[k])
        /\ \A j \in PackageLines(lines) : k < j

\* C18: the identifier is what follows the prefix on the first package line of
\* the first file, whatever the later files and the later lines of the first
\* file hold (the scan stops at that line); it is empty when the first file
\* has no package line, and that absence is no failure: the build fails only
\* on an unreadable file, on a line the scanner cannot return before the scan
\* stops, or on an import block that never closes.
C18_PackageFromFirstFile ==
    /\ concatPc = "returned" =>
          /\ pkgName = DeclaredPackage(src[1].lines)
          /\ pkgName = ConcatFiles(<<src[1]>>).pkgName
          /\ PackageLines(src[1].lines) = {} => pkgName = <<>>
    /\ concatPc = "failed" <=>
          (/\ mainPc = "concat" /\ proc # "running"
           /\ \/ \E k \in 1..Len(src) : ~src[k].ok
              \/ ScanBreaks(src[1].lines))
    /\ concatPc = "panicked" <=>
          (/\ mainPc = "concat" /\ proc # "running"
           /\ \A k \in 1..Len(src) : src[k].ok
           /\ ~ScanBreaks(src[1].lines)
           /\ \E k \in 1..Len(src) : Unterminated(src[k].lines))

C18_Witness ==
    /\ concatPc = "returned"
    /\ src = <<Readable(<<LPkgWhatever, LLong>>), Readable(<<LPackage>>)>>
    /\ pkgName = <<"whatever">>

(***************************************************************************)
(* Further properties of the aggregator, checked under SpecAgg.            *)
(***************************************************************************)

\* C19: when every fragment begins with the line "package main", the output
\* holds the line "package main", whatever the package-name argument.
C19_FragmentPackageKept ==
    (/\ aggPc = "returned"
     /\ fs # <<>>
     /\ \A k \in 1..Len(fs) : fs[k][1] = LPackage) =>
        \E j \in 1..Len(aggOut) : aggOut[j] = LPackage

\* For each line of the body section: is it the separator that ends a fragment?
RECURSIVE SeparatorMask(_)
SeparatorMask(frags) ==
    IF frags = <<>>
    THEN <<>>
    ELSE [k \in 1..Len(BodyLinesOf(Head(frags), 1, FALSE)) |-> FALSE] \o <<TRUE>>
         \o SeparatorMask(Tail(frags))

\* The lines of the output that come before the body section.
BeforeBody(text, functions) == SubSeq(text, 1, Len(text) - Len(functions))

\* C20: for every sequence of fragments, an aggregation in comment mode panics
\* exactly when the one without comment mode does, and when they return they
\* give the same header and the same import section; the bodies have the same
\* lines in the same places, each body line with the marker "// " in comment
\* mode and verbatim without it, each separator line empty in both.
C20_CommentChangesBodyOnly ==
    aggArgs.comment =>
        LET off == AggregateSections(fs, FALSE)
            mask == SeparatorMask(fs)
        IN  /\ aggPc = "panicked" => off.panic
            /\ aggPc = "returned" =>
                  /\ ~off.panic
                  /\ aggSt.imports = off.imports /\ aggSt.importSet = off.importSet
                  /\ aggOut = BeforeBody(aggOut, aggSt.functions) \o aggSt.functions
                  /\ AggregateFiles(aggArgs.pkgName, fs, FALSE).text
                        = BeforeBody(aggOut, aggSt.functions) \o off.functions
                  /\ Len(aggSt.functions) = Len(mask) /\ Len(off.functions) = Len(mask)
                  /\ \A k \in 1..Len(mask) :
                        IF mask[k]
                        THEN aggSt.functions[k] = <<>> /\ off.functions[k] = <<>>
                        ELSE aggSt.functions[k] = <<"//", " ">> \o off.functions[k]

C20_Witness ==
    /\ aggPc = "returned"
    /\ aggArgs = [pkgName |-> <<"whatever">>, comment |-> TRUE]
    /\ fs = << <<LImportA, LEmpty>>, <<LEntryA>> >>
    /\ aggSt.functions = << <<"//", " ">>, <<>>, <<"//", " ", "\t", "\"", "a", "\"">>, <<>> >>
    /\ AggregateSections(fs, FALSE).functions = <<LEmpty, <<>>, LEntryA, <<>> >>

(***************************************************************************)
(* Progress of the dispatcher, checked under SpecFair.                     *)
(***************************************************************************)

\* No generation call has returned an error.
NoFailure == \A i \in Items : task[i] # "fatal"

\* wg.Wait() has returned.
JoinPassed == mainPc \in {"aggregate", "write", "done"}

\* C21: for every batch size, if no generation call ever returns an error,
\* wg.Wait() eventually returns with every item admitted and every result
\* slot assigned; whenever it has returned the channel max is empty; and a
\* task that has signalled the join has given its token back before.
C21_NoDeadlockOnGate ==
    /\ [](NoFailure =>
             /\ JoinPassed => (max = 0 /\ wg = 0)
             /\ max = Cardinality({i \in Items :
                      task[i] \in {"attempt1", "backoff", "attempt2", "returned",
                                   "stored"}})
             /\ wg = Cardinality({i \in Items : task[i] \notin {"idle", "done"}}))
    /\ ([]NoFailure) =>
          <>(/\ mainPc = "aggregate"
             /\ next = nSpecs
             /\ max = 0
             /\ \A i \in Items : task[i] = "done" /\ slotWrites[i] = <<i>>)

C21_Witness ==
    /\ mainPc = "aggregate" /\ proc = "running"
    /\ nSpecs = MaxSpecs
    /\ max = 0 /\ wg = 0
    /\ outOfOrder
    /\ \A i \in Items : task[i] = "done" /\ slotWrites[i] = <<i>>

(***************************************************************************)
(* How each line of a fragment is handled, checked under SpecAggOrder.     *)
(***************************************************************************)

\* One pass over the fragment that gives every line exactly one handling:
\* "discard" (package line, fence line, opener or closer of an import block),
\* "entry" (a line between opener and closer), "single" (a single-line
\* import) or "body".
RECURSIVE HandlingOf(_, _, _)
HandlingOf(frag, j, inBlock) ==
    IF j > Len(frag)
    THEN <<>>
    ELSE LET t == TrimSpace(frag[j])
         IN  IF inBlock
             THEN IF HasPrefix(t, <<")">>)
                  THEN <<"discard">> \o HandlingOf(frag, j + 1, FALSE)
                  ELSE <<"entry">> \o HandlingOf(frag, j + 1, TRUE)
             ELSE IF IsPackageOrFence(t)
                  THEN <<"discard">> \o HandlingOf(frag, j + 1, FALSE)
                  ELSE IF HasPrefix(t, <<"import", " ", "(">>)
                  THEN <<"discard">> \o HandlingOf(frag, j + 1, TRUE)
                  ELSE IF HasPrefix(t, <<"import", " ", "\"">>)
                  THEN <<"single">> \o HandlingOf(frag, j + 1, FALSE)
                  ELSE <<"body">> \o HandlingOf(frag, j + 1, FALSE)

Handling(frag) == HandlingOf(frag, 1, FALSE)

\* The lines handled as body, in their order.
RECURSIVE BodyHandled(_, _, _)
BodyHandled(frag, how, j) ==
    IF j > Len(frag)
    THEN <<>>
    ELSE (IF how[j] = "body" THEN <<frag[j]>> ELSE <<>>)
             \o BodyHandled(frag, how, j + 1)

\* The import entries of the lines handled as imports.
ImportsHandled(frag, how) ==
    {TrimSpace(frag[j]) : j \in {k \in 1..Len(frag) : how[k] = "entry"}}
        \cup {SubSeq(TrimSpace(frag[j]), 3, Len(TrimSpace(frag[j]))) :
                 j \in {k \in 1..Len(frag) : how[k] = "single"}}

\* The openers the outer loop meets: inside a block such a line is an entry.
OpenersOf(frag, how) ==
    {j \in 1..Len(frag) :
        /\ how[j] = "discard"
        /\ HasPrefix(TrimSpace(frag[j]), <<"import", " ", "(">>)}

\* The closer of the block opened at line j: the first line after j that is
\* not an entry.
CloserOf(how, j) == CHOOSE c \in (j + 1)..Len(how) :
                        how[c] = "discard" /\ \A e \in (j + 1)..(c - 1) : how[e] = "entry"

RECURSIVE BodiesHandled(_, _)
BodiesHandled(frags, comment) ==
    IF frags = <<>>
    THEN <<>>
    ELSE Marked(BodyHandled(Head(frags), Handling(Head(frags)), 1), comment)
             \o << <<>> >> \o BodiesHandled(Tail(frags), comment)

\* C22: in an aggregation that returned, every line of every fragment has
\* one handling, and the result is that of handling each line once in that
\* way: the body holds the lines handled as body, each once and in order; the
\* import set holds the entries of the lines handled as imports and nothing
\* else; and the scan of an import block reports the distance from its opener
\* to its closer, so that the outer loop goes on at the line after the closer.
C22_EachLineHandledOnce ==
    aggPc = "returned" =>
        /\ \A k \in 1..Len(fs) :
              LET how == Handling(fs[k])
              IN  /\ Len(how) = Len(fs[k])
                  /\ \A j \in OpenersOf(fs[k], how) :
                        /\ handleImportBlock(fs[k], j, EmptySt).n = CloserOf(how, j) - j
                        /\ ~handleImportBlock(fs[k], j, EmptySt).st.panic
        /\ aggSt.functions = BodiesHandled(fs, aggArgs.comment)
        /\ aggSt.importSet = UNION {ImportsHandled(fs[k], Handling(fs[k])) : k \in 1..Len(fs)}
        /\ Len(aggSt.imports) = Cardinality(aggSt.importSet)

C22_Witness ==
    /\ aggPc = "returned"
    /\ ~aggArgs.comment
    /\ fs = << <<LOpen, LEntryA, LClose, LEntryA>> >>
    /\ Handling(fs[1]) = <<"discard", "entry", "discard", "body">>
    /\ aggSt.functions = <<LEntryA, <<>> >>
    /\ aggSt.importSet = {<<"\"", "a", "\"">>}

====
